---- MODULE Spec2Model ----
(***************************************************************************)
(* Process runner (internal/command.Command) and command registry          *)
(* (internal/server.Server) of ytdl2.                                      *)
(*                                                                         *)
(* Every critical section under stdoutMu, mu, commandsMu, commandsSubMu    *)
(* or counterMu is one atomic step.  Goroutines are interleaved at the     *)
(* points where they hold no lock.                                         *)
(*                                                                         *)
(* Output lines are numbers: line i of stream s is 10*s+i, and the         *)
(* synthetic "Error reading output: ..." line appended by the reader of    *)
(* stream s is 10*s.  Giving every line its own identity lets a delivery   *)
(* be traced; the program itself compares no lines.                        *)
(***************************************************************************)
EXTENDS Integers, Sequences, FiniteSets, TLC

\* ------------------------------------------------------------------ bounds
\* Lines a process writes, over both streams.
MaxLines == 2
\* Calls of Execute, Wait and StdoutChannel made on a runner that is used
\* through its methods.
MaxCalls == 3
\* Largest exit code a process reports (the OS allows 0..255).
MaxExit == 2
\* Requests to /api/yt-dlp and /api/files/{name}/extract-audio: each makes
\* its own runner.
MaxRunners == 2
\* Lines a process started by a request writes, over both streams.
SrvLines == 1
\* Clients of /api/commands/stream.
SrvClients == 2
\* Clients of /api/commands/{id}/logs/stream.
SrvStreams == 1
\* Requests answered by handleCommands and handleCommandLogs.
SrvReads == 1

\* Slack of a subscriber channel: make(chan string, len(c.stdoutLines)+100).
\* The model scales the 100 down so that a run of MaxLines lines can fill a
\* channel; the drop-on-full rule does not depend on the value.
ChanSlack == 1
\* Buffer of a registry subscriber: make(chan string, 10), scaled down alike.
MessageChanCap == 1

Runners == 1..MaxRunners
\* 1 is the stdout pipe, 2 the stderr pipe.
Streams == {1, 2}

VARIABLES
    c,       \* the Command structs
    proc,    \* the OS process of each runner and its two pipes
    rd,      \* the two pipeToStdout goroutines of each runner
    closer,  \* the goroutine of Execute that closes the subscriber channels
    ex,      \* the caller of Execute
    wt,      \* the caller of Wait
    ch,      \* the channels made by StdoutChannel, in order of creation
    srv,     \* the Server struct: commands, commandCounter, commandsSubscribers
    hd,      \* the goroutines serving handleYtDlp and handleExtractAudio
    wa,      \* the goroutine each of them starts to watch its command
    cl,      \* the goroutines serving handleCommandsStream, with messageChan
    rq       \* the last answer of handleCommands and handleCommandLogs

runnerVars == <<c, proc, rd, closer, ex, wt, ch>>
serverVars == <<srv, hd, wa, cl, rq>>
vars == <<c, proc, rd, closer, ex, wt, ch, srv, hd, wa, cl, rq>>

\* ------------------------------------------------------------------ lines
Line(s, i) == 10 * s + i
ErrMsg(s) == 10 * s
IsErrMsg(l) == l % 10 = 0

Range(q) == {q[i] : i \in DOMAIN q}
NotErrMsg(l) == ~IsErrMsg(l)
\* The lines of q that a reader scanned from a pipe.
OutputLines(q) == SelectSeq(q, NotErrMsg)
Prefix(q, n) == SubSeq(q, 1, n)
IsPrefix(p, q) == Len(p) <= Len(q) /\ p = Prefix(q, Len(p))

\* ------------------------------------------------------------- WaitStatus
\* syscall.WaitStatus: a process either exited with a code or was killed by
\* a signal.  ExitStatus() is -1 when the process did not exit.
WaitStatuses ==
    {[exited |-> TRUE, code |-> k] : k \in 0..MaxExit}
        \cup {[exited |-> FALSE, code |-> 0]}
ExitStatus(w) == IF w.exited THEN w.code ELSE -1
Success(w) == w.exited /\ w.code = 0

\* What a process writes: out[s] lines on stream s, of which line bad[s]
\* (0: none) is longer than the scanner's 1 MB buffer; at most n lines.
Scripts(n) ==
    {o \in [out : [Streams -> 0..n], bad : [Streams -> 0..n]] :
        /\ o.out[1] + o.out[2] <= n
        /\ \A s \in Streams : o.bad[s] <= o.out[s]}

\* ------------------------------------------------------------------ New
\* New as it would be without exitCode: -1: the zero value of the struct.
NewZeroValue ==
    [cmd |-> "nil", exitCode |-> 0, executed |-> FALSE,
     stdoutLines |-> <<>>, stdoutSubscribers |-> <<>>,
     stdoutClosed |-> FALSE, waitGroup |-> 0]

New ==
    [cmd |-> "nil", exitCode |-> -1, executed |-> FALSE,
     stdoutLines |-> <<>>, stdoutSubscribers |-> <<>>,
     stdoutClosed |-> FALSE, waitGroup |-> 0]

NoProc ==
    [st |-> "none", out |-> [s \in Streams |-> 0], bad |-> [s \in Streams |-> 0],
     status |-> [exited |-> TRUE, code |-> 0], pipesClosed |-> FALSE]

\* NewServer: no command, no subscriber, the counter at 0.
NewServer == [commands |-> <<>>, commandCounter |-> 0, commandsSubscribers |-> {}]

Clients == 1..SrvClients

\* No request of handleCommands or handleCommandLogs has been answered.
NoAnswer == [n |-> 0, kind |-> "none", id |-> 0, code |-> 0, body |-> <<>>]

Init ==
    /\ c = [r \in Runners |-> New]
    /\ proc = [r \in Runners |-> NoProc]
    /\ rd = [r \in Runners |-> [s \in Streams |-> [pc |-> "off", n |-> 0]]]
    /\ closer = [r \in Runners |-> "off"]
    /\ ex = [r \in Runners |-> [pc |-> "idle", n |-> 0, ret |-> "none"]]
    /\ wt = [r \in Runners |-> [pc |-> "idle", n |-> 0, err |-> "none", ret |-> "none"]]
    /\ ch = <<>>
    /\ srv = NewServer
    /\ hd = [q \in Runners |-> [pc |-> "idle", url |-> "none", id |-> 0, snap |-> <<>>]]
    /\ wa = [r \in Runners |-> [pc |-> "off", chan |-> 0, exitCode |-> 0, snap |-> <<>>]]
    /\ cl = [j \in Clients |->
                [pc |-> "idle", buf |-> <<>>, closed |-> FALSE, last |-> <<>>, n |-> 0]]
    /\ rq = NoAnswer

\* c.mu is held by the Execute caller between creating the exec.Cmd and
\* starting it.
MuFree(r) == ex[r].pc # "locked"

ChansOf(r) == {k \in DOMAIN ch : ch[k].r = r}
\* The calls made so far on runner r.
Calls(r) == ex[r].n + wt[r].n + Cardinality(ChansOf(r))

ReadersDone(r) == \A s \in Streams : rd[r][s].pc \in {"eof", "long", "closed"}

\* ---------------------------------------------------------------- Execute
\* Execute without its if c.executed test.
NeverExecuted(r) == FALSE

AlreadyExecuted(r) == c[r].executed

\* Execute, up to c.cmd = exec.Command(...): on a started runner it returns
\* nil at once.
Execute(r) ==
    /\ MuFree(r)
    /\ IF AlreadyExecuted(r)
       THEN /\ ex' = [ex EXCEPT ![r].n = @ + 1, ![r].ret = "nil"]
            /\ UNCHANGED c
       ELSE /\ ex' = [ex EXCEPT ![r].n = @ + 1, ![r].pc = "locked", ![r].ret = "none"]
            /\ c' = [c EXCEPT ![r].cmd = "created"]
    /\ UNCHANGED <<proc, rd, closer, wt, ch>>

\* StdoutPipe, StderrPipe and Start: any of them may fail, and then Execute
\* returns the error with executed still false.
ExecuteStart(r, scripts) ==
    /\ ex[r].pc = "locked"
    /\ \/ /\ ex' = [ex EXCEPT ![r].pc = "idle", ![r].ret = "err"]
          /\ UNCHANGED <<c, proc>>
       \/ \E o \in scripts :
            /\ proc' = [proc EXCEPT ![r] =
                            [st |-> "running", out |-> o.out, bad |-> o.bad,
                             status |-> [exited |-> TRUE, code |-> 0],
                             pipesClosed |-> FALSE]]
            /\ c' = [c EXCEPT ![r].cmd = "started", ![r].executed = TRUE]
            /\ ex' = [ex EXCEPT ![r].pc = "spawned"]
    /\ UNCHANGED <<rd, closer, wt, ch, srv, hd, wa, cl, rq>>

\* waitGroup.Add(2) and the three go statements, after c.mu is released.
ExecuteSpawn(r) ==
    /\ ex[r].pc = "spawned"
    /\ c' = [c EXCEPT ![r].waitGroup = @ + 2]
    /\ rd' = [rd EXCEPT ![r] = [s \in Streams |-> [pc |-> "run", n |-> 0]]]
    /\ closer' = [closer EXCEPT ![r] = "waiting"]
    /\ ex' = [ex EXCEPT ![r].pc = "idle", ![r].ret = "nil"]
    /\ UNCHANGED <<proc, wt, ch, srv, hd, wa, cl, rq>>

\* The process exits (or is killed) at a moment of its own choosing; what it
\* wrote and the readers have not yet read stays in the pipes.  How it ended
\* is known to the program only when exec.Cmd.Wait reaps it.
ProcExit(r) ==
    /\ proc[r].st = "running"
    /\ proc' = [proc EXCEPT ![r].st = "exited"]
    /\ UNCHANGED <<c, rd, closer, ex, wt, ch, srv, hd, wa, cl, rq>>

\* ----------------------------------------------------------- pipeToStdout
HasRoom(k) == Len(ch[k].sent) - ch[k].nread < ch[k].cap

\* select { case sub <- line: default: } on every channel of the set to.
\* A fan-out that puts the line ahead of what the buffer already holds.
OfferToFront(to, line) ==
    [k \in DOMAIN ch |->
        IF k \in to
        THEN IF HasRoom(k)
             THEN [ch[k] EXCEPT !.sent = <<line>> \o @]
             ELSE [ch[k] EXCEPT !.drops = @ + 1]
        ELSE ch[k]]

OfferTo(to, line) ==
    [k \in DOMAIN ch |->
        IF k \in to
        THEN IF HasRoom(k)
             THEN [ch[k] EXCEPT !.sent = Append(@, line)]
             ELSE [ch[k] EXCEPT !.drops = @ + 1]
        ELSE ch[k]]

\* The fan-out loop stopping one subscriber short.
OfferSkipsLast(subs, line) == OfferTo(Range(Prefix(subs, Len(subs) - 1)), line)

\* A fan-out that gives the line to nobody when one subscriber is full.
OfferAllOrNone(subs, line) ==
    IF \A k \in Range(subs) : HasRoom(k)
    THEN OfferTo(Range(subs), line)
    ELSE [k \in DOMAIN ch |->
            IF k \in Range(subs) THEN [ch[k] EXCEPT !.drops = @ + 1] ELSE ch[k]]

\* for _, sub := range c.stdoutSubscribers
Offer(subs, line) == OfferTo(Range(subs), line)

\* A plain send, sub <- line, waits for room in every subscriber's buffer.
SendBlocks(subs) == \A k \in Range(subs) : HasRoom(k)

\* The select has a default branch: the reader can always go on, whatever
\* the state of the subscribers' buffers.
SendReady(subs) == TRUE

\* The scan loop keeping only the newest line in c.stdoutLines.
ReadLineKeepsLast(r, s) ==
    /\ rd[r][s].pc = "run"
    /\ SendReady(c[r].stdoutSubscribers)
    /\ rd[r][s].n < proc[r].out[s]
    /\ rd[r][s].n + 1 # proc[r].bad[s]
    /\ LET line == Line(s, rd[r][s].n + 1) IN
         /\ c' = [c EXCEPT ![r].stdoutLines = <<line>>]
         /\ ch' = Offer(c[r].stdoutSubscribers, line)
    /\ rd' = [rd EXCEPT ![r][s].n = @ + 1]
    /\ UNCHANGED <<proc, closer, ex, wt, srv, hd, wa, cl, rq>>

\* One turn of the scan loop: a line is appended and offered.
ReadLine(r, s) ==
    /\ rd[r][s].pc = "run"
    /\ SendReady(c[r].stdoutSubscribers)
    /\ rd[r][s].n < proc[r].out[s]
    /\ rd[r][s].n + 1 # proc[r].bad[s]
    /\ LET line == Line(s, rd[r][s].n + 1) IN
         /\ c' = [c EXCEPT ![r].stdoutLines = Append(@, line)]
         /\ ch' = Offer(c[r].stdoutSubscribers, line)
    /\ rd' = [rd EXCEPT ![r][s].n = @ + 1]
    /\ UNCHANGED <<proc, closer, ex, wt, srv, hd, wa, cl, rq>>

\* The reader leaves the loop with scanner.Err() set: the message is appended
\* to the history only, and the reader is done.
ReadFail(r, s, how) ==
    /\ c' = [c EXCEPT ![r].stdoutLines = Append(@, ErrMsg(s)),
                      ![r].waitGroup = @ - 1]
    /\ rd' = [rd EXCEPT ![r][s].pc = how]
    /\ UNCHANGED <<proc, closer, ex, wt, ch, srv, hd, wa, cl, rq>>

\* bufio.ErrTooLong: the next line exceeds the 1 MB buffer.
ReadTooLong(r, s) ==
    /\ rd[r][s].pc = "run"
    /\ rd[r][s].n < proc[r].out[s]
    /\ rd[r][s].n + 1 = proc[r].bad[s]
    /\ ReadFail(r, s, "long")

\* os.ErrClosed: exec.Cmd.Wait closed the pipe the reader is reading.
ReadClosed(r, s) ==
    /\ rd[r][s].pc = "run"
    /\ proc[r].pipesClosed
    /\ ReadFail(r, s, "closed")

\* The reader returning at the end of the stream without waitGroup.Done().
ReadEOFNoDone(r, s) ==
    /\ rd[r][s].pc = "run"
    /\ rd[r][s].n = proc[r].out[s]
    /\ proc[r].st \in {"exited", "reaped"}
    /\ ~proc[r].pipesClosed
    /\ rd' = [rd EXCEPT ![r][s].pc = "eof"]
    /\ UNCHANGED <<c, proc, closer, ex, wt, ch, srv, hd, wa, cl, rq>>

\* End of stream: the process is gone and the pipe is empty.
ReadEOF(r, s) ==
    /\ rd[r][s].pc = "run"
    /\ rd[r][s].n = proc[r].out[s]
    /\ proc[r].st \in {"exited", "reaped"}
    /\ ~proc[r].pipesClosed
    /\ rd' = [rd EXCEPT ![r][s].pc = "eof"]
    /\ c' = [c EXCEPT ![r].waitGroup = @ - 1]
    /\ UNCHANGED <<proc, closer, ex, wt, ch, srv, hd, wa, cl, rq>>

pipeToStdout(r, s) ==
    \/ ReadLine(r, s)
    \/ ReadTooLong(r, s)
    \/ ReadClosed(r, s)
    \/ ReadEOF(r, s)

\* The closer setting stdoutClosed without closing the subscribers' channels.
CloserNoClose(r) ==
    /\ closer[r] = "waiting"
    /\ c[r].waitGroup = 0
    /\ closer' = [closer EXCEPT ![r] = "done"]
    /\ c' = [c EXCEPT ![r].stdoutClosed = TRUE, ![r].stdoutSubscribers = <<>>]
    /\ UNCHANGED <<proc, rd, ex, wt, ch, srv, hd, wa, cl, rq>>

\* The goroutine of Execute: waitGroup.Wait(), then close every subscriber.
Closer(r) ==
    /\ closer[r] = "waiting"
    /\ c[r].waitGroup = 0
    /\ closer' = [closer EXCEPT ![r] = "done"]
    /\ ch' = [k \in DOMAIN ch |->
                IF k \in Range(c[r].stdoutSubscribers)
                THEN [ch[k] EXCEPT !.closed = TRUE]
                ELSE ch[k]]
    /\ c' = [c EXCEPT ![r].stdoutClosed = TRUE, ![r].stdoutSubscribers = <<>>]
    /\ UNCHANGED <<proc, rd, ex, wt, srv, hd, wa, cl, rq>>

\* ---------------------------------------------------------- StdoutChannel
\* When the call happens: "new" before Execute has started the process,
\* "live" from then until both readers are done, "drained" between that and
\* the closer, "closed" after the closer.
Phase(r) ==
    IF c[r].stdoutClosed THEN "closed"
    ELSE IF ReadersDone(r) THEN "drained"
    ELSE IF c[r].executed THEN "live" ELSE "new"

\* StdoutChannel without the replay loop.
NewChanNoReplay(r) ==
    [r |-> r, cap |-> Len(c[r].stdoutLines) + ChanSlack,
     sent |-> <<>>, nread |-> 0, closed |-> c[r].stdoutClosed,
     at |-> Len(c[r].stdoutLines), drops |-> 0, phase |-> Phase(r)]

\* StdoutChannel without close(newChan) on a finished runner.
NewChanLeftOpen(r) ==
    [r |-> r, cap |-> Len(c[r].stdoutLines) + ChanSlack,
     sent |-> c[r].stdoutLines, nread |-> 0, closed |-> FALSE,
     at |-> Len(c[r].stdoutLines), drops |-> 0, phase |-> Phase(r)]

\* The new channel: its capacity, the replayed history, and whether it is
\* closed at once.  at, drops and phase record, for the properties, the
\* length of the history at the call, the lines dropped on this channel and
\* the moment of the call.
NewChan(r) ==
    [r |-> r, cap |-> Len(c[r].stdoutLines) + ChanSlack,
     sent |-> c[r].stdoutLines, nread |-> 0, closed |-> c[r].stdoutClosed,
     at |-> Len(c[r].stdoutLines), drops |-> 0, phase |-> Phase(r)]

\* A StdoutChannel that registers the channel whether or not stdoutClosed.
StdoutChannelAlwaysRegisters(r) ==
    /\ ch' = Append(ch, NewChan(r))
    /\ c' = [c EXCEPT ![r].stdoutSubscribers = Append(@, Len(ch) + 1)]
    /\ UNCHANGED <<proc, rd, closer, ex, wt>>

StdoutChannel(r) ==
    /\ ch' = Append(ch, NewChan(r))
    /\ c' = [c EXCEPT ![r].stdoutSubscribers =
                IF c[r].stdoutClosed THEN @ ELSE Append(@, Len(ch) + 1)]
    /\ UNCHANGED <<proc, rd, closer, ex, wt>>

\* The holder of channel k takes the next line out of it.
Recv(k) ==
    /\ k \in DOMAIN ch
    /\ ch[k].nread < Len(ch[k].sent)
    /\ ch' = [ch EXCEPT ![k].nread = @ + 1]
    /\ UNCHANGED <<c, proc, rd, closer, ex, wt, srv, hd, wa, cl, rq>>

\* ------------------------------------------------------------------- Wait
\* if c.cmd == nil { return nil }
\* A Wait without the c.cmd == nil check.
WaitNoNilCheck(r) ==
    /\ wt[r].pc = "idle"
    /\ wt' = [wt EXCEPT ![r].n = @ + 1, ![r].pc = "cmdWait",
                        ![r].ret = "none", ![r].err = "none"]
    /\ UNCHANGED <<c, proc, rd, closer, ex, ch>>

Wait(r) ==
    /\ wt[r].pc = "idle"
    /\ IF c[r].cmd = "nil"
       THEN wt' = [wt EXCEPT ![r].n = @ + 1, ![r].ret = "nil", ![r].err = "none"]
       ELSE wt' = [wt EXCEPT ![r].n = @ + 1, ![r].pc = "cmdWait",
                             ![r].ret = "none", ![r].err = "none"]
    /\ UNCHANGED <<c, proc, rd, closer, ex, ch>>

\* err := c.cmd.Wait().  exec.Cmd.Wait fails at once on a command that was
\* not started or was waited for already; otherwise it returns when the
\* process has exited, closes the parent's ends of both pipes, and reports
\* an *exec.ExitError unless the process succeeded.
CmdWait(r) ==
    /\ wt[r].pc = "cmdWait"
    /\ \/ /\ c[r].cmd \in {"created", "waited"}
          /\ wt' = [wt EXCEPT ![r].pc = "wgWait", ![r].err = "other"]
          /\ UNCHANGED <<c, proc>>
       \/ /\ c[r].cmd = "started"
          /\ proc[r].st = "exited"
          /\ c' = [c EXCEPT ![r].cmd = "waited"]
          /\ \E w \in WaitStatuses :
               /\ proc' = [proc EXCEPT ![r].st = "reaped", ![r].status = w,
                                       ![r].pipesClosed = TRUE]
               /\ wt' = [wt EXCEPT ![r].pc = "wgWait",
                            ![r].err = IF Success(w) THEN "nil" ELSE "ExitError"]
    /\ UNCHANGED <<rd, closer, ex, ch, srv, hd, wa, cl, rq>>

\* c.waitGroup.Wait()
WgWait(r) ==
    /\ wt[r].pc = "wgWait"
    /\ c[r].waitGroup = 0
    /\ wt' = [wt EXCEPT ![r].pc = "record"]
    /\ UNCHANGED <<c, proc, rd, closer, ex, ch, srv, hd, wa, cl, rq>>

\* The exit code Wait stores for the error cmd.Wait returned.
ResolvedCode(err, w) ==
    IF err = "nil" THEN 0
    ELSE IF err = "ExitError" THEN ExitStatus(w)
    ELSE 1

\* Capture exit code, under c.mu; return err.
WaitRecord(r) ==
    /\ wt[r].pc = "record"
    /\ MuFree(r)
    /\ c' = [c EXCEPT ![r].exitCode = ResolvedCode(wt[r].err, proc[r].status)]
    /\ wt' = [wt EXCEPT ![r].pc = "idle", ![r].ret = wt[r].err]
    /\ UNCHANGED <<proc, rd, closer, ex, ch, srv, hd, wa, cl, rq>>

ExitCode(r) == c[r].exitCode
\* A copy that is one element short of the history.
LogsAllButLast(r) ==
    SubSeq(c[r].stdoutLines, 1, Len(c[r].stdoutLines) - 1)
\* Logs: make + copy of c.stdoutLines under stdoutMu.
Logs(r) == c[r].stdoutLines

\* ------------------------------------------------------------------- Spec
\* A runner used through its methods by callers of any kind: each call is
\* made at any moment, and a subscriber reads when it likes.
DirectRunners == {1}

CallExecute(r) ==
    /\ Calls(r) < MaxCalls
    /\ Execute(r)
    /\ UNCHANGED serverVars

CallStdoutChannel(r) ==
    /\ Calls(r) < MaxCalls
    /\ StdoutChannel(r)
    /\ UNCHANGED serverVars

CallWait(r) ==
    /\ Calls(r) < MaxCalls
    /\ Wait(r)
    /\ UNCHANGED serverVars

Next ==
    \E r \in DirectRunners :
        \/ CallExecute(r)
        \/ CallStdoutChannel(r)
        \/ CallWait(r)
        \/ ExecuteStart(r, Scripts(MaxLines))
        \/ ExecuteSpawn(r)
        \/ ProcExit(r)
        \/ \E s \in Streams : pipeToStdout(r, s)
        \/ Closer(r)
        \/ \E k \in DOMAIN ch : Recv(k)
        \/ CmdWait(r)
        \/ WgWait(r)
        \/ WaitRecord(r)

Spec == Init /\ [][Next]_vars

\* The Go scheduler runs every goroutine that can run: the goroutines of the
\* runner and a caller inside Execute or Wait go on.  Nothing makes a caller
\* call, a subscriber read, or the process exit.
Fairness ==
    \A r \in Runners :
        /\ WF_vars(ExecuteStart(r, Scripts(MaxLines)))
        /\ WF_vars(ExecuteSpawn(r))
        /\ \A s \in Streams : WF_vars(pipeToStdout(r, s))
        /\ WF_vars(Closer(r))
        /\ WF_vars(CmdWait(r))
        /\ WF_vars(WgWait(r))
        /\ WF_vars(WaitRecord(r))

FairSpec == Init /\ [][Next]_vars /\ Fairness

\* ----------------------------------------------------------------- LogsSpec
\* A caller of Logs() keeps the slice it got in rq.body.
CallLogs(r) ==
    /\ rq.n < SrvReads
    /\ rq' = [n |-> rq.n + 1, kind |-> "snapshot", id |-> r, code |-> 0,
              body |-> Logs(r)]
    /\ UNCHANGED <<c, proc, rd, closer, ex, wt, ch, srv, hd, wa, cl>>

\* logs[i] = "" by the caller: the slice Logs() made has its own array, so
\* the write lands in the caller's copy.
LogsCallerWrite ==
    /\ rq.kind = "snapshot"
    /\ \A i \in DOMAIN rq.body : rq.body[i] # 0
    /\ \E i \in DOMAIN rq.body : rq' = [rq EXCEPT !.body[i] = 0]
    /\ UNCHANGED <<c, proc, rd, closer, ex, wt, ch, srv, hd, wa, cl>>

\* A runner whose callers execute, subscribe and take snapshots, and never
\* call Wait.
LogsNext ==
    \/ \E r \in DirectRunners :
        \/ CallExecute(r)
        \/ CallStdoutChannel(r)
        \/ CallLogs(r)
        \/ ExecuteStart(r, Scripts(MaxLines))
        \/ ExecuteSpawn(r)
        \/ ProcExit(r)
        \/ \E s \in Streams : ReadLine(r, s) \/ ReadTooLong(r, s) \/ ReadEOF(r, s)
        \/ Closer(r)
        \/ \E k \in 1..MaxCalls : Recv(k)
    \/ LogsCallerWrite

LogsSpec == Init /\ [][LogsNext]_vars

\* The same runner with its goroutines scheduled; its callers and its
\* subscribers do what they like, when they like.
LogsFairSpec == Init /\ [][LogsNext]_vars /\ Fairness

\* ------------------------------------------------------------------ OldSpec
\* The copy of the runner in src/server/internal/command: Execute, the
\* closer, StdoutChannel and Wait read as above; its reader sends each line
\* to the subscribers with a plain send, holding stdoutMu.

\* stdoutMu is held by a reader that is inside its fan-out loop.
OldMuFree(r) == \A s \in Streams : rd[r][s].pc # "send"

\* The subscribers the loop of reader s has not reached yet, in order: the
\* line of the reader is the last one sent to those it has passed.
OldUnsent(r, s) ==
    LET line == Line(s, rd[r][s].n)
        subs == c[r].stdoutSubscribers
    IN  SelectSeq(subs, LAMBDA k :
            \/ ch[k].sent = <<>>
            \/ ch[k].sent[Len(ch[k].sent)] # line)

\* scanner.Scan(), stdoutMu.Lock(), append: the reader enters the loop over
\* the subscribers with the mutex held.
OldReadLine(r, s) ==
    /\ rd[r][s].pc = "run"
    /\ OldMuFree(r)
    /\ rd[r][s].n < proc[r].out[s]
    /\ rd[r][s].n + 1 # proc[r].bad[s]
    /\ c' = [c EXCEPT ![r].stdoutLines = Append(@, Line(s, rd[r][s].n + 1))]
    /\ rd' = [rd EXCEPT ![r][s].n = @ + 1,
                        ![r][s].pc = IF c[r].stdoutSubscribers = <<>>
                                     THEN "run" ELSE "send"]
    /\ UNCHANGED <<proc, closer, ex, wt, ch, srv, hd, wa, cl, rq>>

\* sub <- line: waits for room in the subscriber's buffer; after the last
\* subscriber, stdoutMu.Unlock().
OldSend(r, s) ==
    /\ rd[r][s].pc = "send"
    /\ LET k == Head(OldUnsent(r, s)) IN
         /\ HasRoom(k)
         /\ ch' = [ch EXCEPT ![k].sent = Append(@, Line(s, rd[r][s].n))]
    /\ rd' = [rd EXCEPT ![r][s].pc = IF Len(OldUnsent(r, s)) = 1
                                     THEN "run" ELSE "send"]
    /\ UNCHANGED <<c, proc, closer, ex, wt, srv, hd, wa, cl, rq>>

\* scanner.Scan() returning false on a read error or on a line beyond the
\* scanner's buffer: the loop ends and nothing is appended.
OldReadFail(r, s, how) ==
    /\ c' = [c EXCEPT ![r].waitGroup = @ - 1]
    /\ rd' = [rd EXCEPT ![r][s].pc = how]
    /\ UNCHANGED <<proc, closer, ex, wt, ch, srv, hd, wa, cl, rq>>

OldReadTooLong(r, s) ==
    /\ rd[r][s].pc = "run"
    /\ rd[r][s].n < proc[r].out[s]
    /\ rd[r][s].n + 1 = proc[r].bad[s]
    /\ OldReadFail(r, s, "long")

OldReadClosed(r, s) ==
    /\ rd[r][s].pc = "run"
    /\ proc[r].pipesClosed
    /\ OldReadFail(r, s, "closed")

OldPipeToStdout(r, s) ==
    \/ OldReadLine(r, s)
    \/ OldSend(r, s)
    \/ OldReadTooLong(r, s)
    \/ OldReadClosed(r, s)
    \/ ReadEOF(r, s)

\* StdoutChannel takes stdoutMu first.
OldStdoutChannel(r) ==
    /\ OldMuFree(r)
    /\ CallStdoutChannel(r)

OldNext ==
    \E r \in DirectRunners :
        \/ CallExecute(r)
        \/ OldStdoutChannel(r)
        \/ CallWait(r)
        \/ ExecuteStart(r, Scripts(MaxLines))
        \/ ExecuteSpawn(r)
        \/ ProcExit(r)
        \/ \E s \in Streams : OldPipeToStdout(r, s)
        \/ Closer(r)
        \/ \E k \in 1..MaxCalls : Recv(k)
        \/ CmdWait(r)
        \/ WgWait(r)
        \/ WaitRecord(r)

OldFairness ==
    \A r \in Runners :
        /\ WF_vars(ExecuteStart(r, Scripts(MaxLines)))
        /\ WF_vars(ExecuteSpawn(r))
        /\ \A s \in Streams : WF_vars(OldPipeToStdout(r, s))
        /\ WF_vars(Closer(r))
        /\ WF_vars(CmdWait(r))
        /\ WF_vars(WgWait(r))
        /\ WF_vars(WaitRecord(r))

OldSpec == Init /\ [][OldNext]_vars /\ OldFairness

\* ================================================================ server
\* The requests that register commands.  Request q makes runner q; requests
\* are numbered in the order in which they arrive.
Snapshot(cmds) ==
    [id \in DOMAIN cmds |->
        [id |-> id, url |-> cmds[id].url, status |-> cmds[id].status,
         exitCode |-> cmds[id].exitCode]]

\* The broadcast giving up for every subscriber when one of them is full.
SendAllOrNone(msg) ==
    [j \in Clients |->
        IF \A i \in srv.commandsSubscribers : Len(cl[i].buf) < MessageChanCap
        THEN IF j \in srv.commandsSubscribers
             THEN [cl[j] EXCEPT !.buf = Append(@, msg)]
             ELSE cl[j]
        ELSE cl[j]]

\* select { case ch <- message: default: } for every registered subscriber.
SendAll(msg) ==
    [j \in Clients |->
        IF j \in srv.commandsSubscribers /\ Len(cl[j].buf) < MessageChanCap
        THEN [cl[j] EXCEPT !.buf = Append(@, msg)]
        ELSE cl[j]]

\* The watcher taking every exit code up to 0 for a success.
StatusForNotPositive(exitCode) == IF exitCode <= 0 THEN "completed" ELSE "failed"

\* if exitCode == 0 { "completed" } else { "failed" }
StatusFor(exitCode) == IF exitCode = 0 THEN "completed" ELSE "failed"

\* The handler up to its call of cmd.Execute(), on a runner New just made.
HandleBegin(q, url) ==
    /\ hd[q].pc = "idle"
    /\ \A p \in Runners : p < q => hd[p].pc # "idle"
    /\ hd' = [hd EXCEPT ![q].pc = "execute", ![q].url = url]
    /\ Execute(q)
    /\ UNCHANGED <<srv, wa, cl, rq>>

handleYtDlp(q) ==
    /\ q \in Runners
    /\ HandleBegin(q, "url")

handleExtractAudio(q) ==
    /\ q \in Runners
    /\ HandleBegin(q, "Extract audio")

\* The handler going on to register the command although Execute returned
\* an error.
HandleLaunchErrorIgnored(q) ==
    /\ hd[q].pc = "execute"
    /\ ex[q].pc = "idle"
    /\ ex[q].ret = "err"
    /\ srv' = [srv EXCEPT !.commandCounter = @ + 1]
    /\ hd' = [hd EXCEPT ![q].pc = "insert", ![q].id = srv.commandCounter + 1]
    /\ UNCHANGED <<c, proc, rd, closer, ex, wt, ch, wa, cl, rq>>

\* Execute returned an error: the handler answers 500 and registers nothing.
HandleLaunchError(q) ==
    /\ hd[q].pc = "execute"
    /\ ex[q].pc = "idle"
    /\ ex[q].ret = "err"
    /\ hd' = [hd EXCEPT ![q].pc = "failed"]
    /\ UNCHANGED <<c, proc, rd, closer, ex, wt, ch, srv, wa, cl, rq>>

\* nextCommandID returning the counter's successor without storing it.
nextCommandIDNoStore(q) ==
    /\ hd[q].pc = "execute"
    /\ ex[q].pc = "idle"
    /\ ex[q].ret = "nil"
    /\ hd' = [hd EXCEPT ![q].pc = "insert", ![q].id = srv.commandCounter + 1]
    /\ UNCHANGED <<c, proc, rd, closer, ex, wt, ch, srv, wa, cl, rq>>

\* Execute returned nil: cmdID := s.nextCommandID(), under counterMu.  The
\* identifier n stands for the string "cmd-n" that Sprintf makes of the
\* counter.
nextCommandID(q) ==
    /\ hd[q].pc = "execute"
    /\ ex[q].pc = "idle"
    /\ ex[q].ret = "nil"
    /\ srv' = [srv EXCEPT !.commandCounter = @ + 1]
    /\ hd' = [hd EXCEPT ![q].pc = "insert", ![q].id = srv.commandCounter + 1]
    /\ UNCHANGED <<c, proc, rd, closer, ex, wt, ch, wa, cl, rq>>

\* The insertion of a CommandInfo made without Status: "running".
HandleInsertNoStatus(q) ==
    /\ hd[q].pc = "insert"
    /\ srv' = [srv EXCEPT !.commands =
                  (hd[q].id :>
                      [id |-> hd[q].id, url |-> hd[q].url, status |-> "",
                       exitCode |-> 0, cmd |-> q]) @@ @]
    /\ hd' = [hd EXCEPT ![q].pc = "snapshot"]
    /\ UNCHANGED <<c, proc, rd, closer, ex, wt, ch, wa, cl, rq>>

\* The insertion making a new map of the one entry.
HandleInsertAlone(q) ==
    /\ hd[q].pc = "insert"
    /\ srv' = [srv EXCEPT !.commands =
                  (hd[q].id :>
                      [id |-> hd[q].id, url |-> hd[q].url, status |-> "running",
                       exitCode |-> 0, cmd |-> q])]
    /\ hd' = [hd EXCEPT ![q].pc = "snapshot"]
    /\ UNCHANGED <<c, proc, rd, closer, ex, wt, ch, wa, cl, rq>>

\* s.commands[cmdID] = cmdInfo, under commandsMu: a map assignment binds the
\* key to the new value whether or not the key was bound.
HandleInsert(q) ==
    /\ hd[q].pc = "insert"
    /\ srv' = [srv EXCEPT !.commands =
                  (hd[q].id :>
                      [id |-> hd[q].id, url |-> hd[q].url, status |-> "running",
                       exitCode |-> 0, cmd |-> q]) @@ @]
    /\ hd' = [hd EXCEPT ![q].pc = "snapshot"]
    /\ UNCHANGED <<c, proc, rd, closer, ex, wt, ch, wa, cl, rq>>

\* The broadcast copying the entry of its own request only.
HandleSnapshotOwn(q) ==
    /\ hd[q].pc = "snapshot"
    /\ hd' = [hd EXCEPT ![q].pc = "send",
                        ![q].snap = Snapshot([id \in {hd[q].id} |-> srv.commands[id]])]
    /\ UNCHANGED <<c, proc, rd, closer, ex, wt, ch, srv, wa, cl, rq>>

\* broadcastCommandUpdate, first half: the copy made under commandsMu.
HandleSnapshot(q) ==
    /\ hd[q].pc = "snapshot"
    /\ hd' = [hd EXCEPT ![q].pc = "send", ![q].snap = Snapshot(srv.commands)]
    /\ UNCHANGED <<c, proc, rd, closer, ex, wt, ch, srv, wa, cl, rq>>

\* broadcastCommandUpdate, second half: the sends under commandsSubMu; then
\* the handler starts the watcher and answers 200.
HandleSend(q) ==
    /\ hd[q].pc = "send"
    /\ cl' = SendAll(hd[q].snap)
    /\ hd' = [hd EXCEPT ![q].pc = "done"]
    /\ wa' = [wa EXCEPT ![q].pc = "subscribe"]
    /\ UNCHANGED <<c, proc, rd, closer, ex, wt, ch, srv, rq>>

\* The watcher: for line := range cmd.StdoutChannel()
WatchSubscribe(r) ==
    /\ wa[r].pc = "subscribe"
    /\ StdoutChannel(r)
    /\ wa' = [wa EXCEPT ![r].pc = "range", ![r].chan = Len(ch) + 1]
    /\ UNCHANGED <<srv, hd, cl, rq>>

WatchRange(r) ==
    /\ wa[r].pc = "range"
    /\ Recv(wa[r].chan)

\* The watcher going from its loop to cmd.ExitCode() without cmd.Wait().
WatchWaitSkipped(r) ==
    /\ wa[r].pc = "range"
    /\ ch[wa[r].chan].closed
    /\ ch[wa[r].chan].nread = Len(ch[wa[r].chan].sent)
    /\ wa' = [wa EXCEPT ![r].pc = "mark", ![r].exitCode = ExitCode(r)]
    /\ UNCHANGED <<c, proc, rd, closer, ex, wt, ch, srv, hd, cl, rq>>

\* The channel is closed and empty: the loop ends and the watcher calls
\* cmd.Wait().
WatchWait(r) ==
    /\ wa[r].pc = "range"
    /\ ch[wa[r].chan].closed
    /\ ch[wa[r].chan].nread = Len(ch[wa[r].chan].sent)
    /\ Wait(r)
    /\ wa' = [wa EXCEPT ![r].pc = "wait"]
    /\ UNCHANGED <<srv, hd, cl, rq>>

\* Wait returned: exitCode := cmd.ExitCode(), under c.mu.
WatchExitCode(r) ==
    /\ wa[r].pc = "wait"
    /\ wt[r].pc = "idle"
    /\ MuFree(r)
    /\ wa' = [wa EXCEPT ![r].pc = "mark", ![r].exitCode = ExitCode(r)]
    /\ UNCHANGED <<c, proc, rd, closer, ex, wt, ch, srv, hd, cl, rq>>

\* A watcher that sets the status and leaves the exit code of the entry.
WatchMarkStatusOnly(r) ==
    /\ wa[r].pc = "mark"
    /\ srv' = [srv EXCEPT !.commands[hd[r].id].status = StatusFor(wa[r].exitCode)]
    /\ wa' = [wa EXCEPT ![r].pc = "snapshot"]
    /\ UNCHANGED <<c, proc, rd, closer, ex, wt, ch, hd, cl, rq>>

\* cmdInfo.Status and cmdInfo.ExitCode, under commandsMu.
WatchMark(r) ==
    /\ wa[r].pc = "mark"
    /\ srv' = [srv EXCEPT !.commands[hd[r].id].status = StatusFor(wa[r].exitCode),
                          !.commands[hd[r].id].exitCode = wa[r].exitCode]
    /\ wa' = [wa EXCEPT ![r].pc = "snapshot"]
    /\ UNCHANGED <<c, proc, rd, closer, ex, wt, ch, hd, cl, rq>>

WatchSnapshot(r) ==
    /\ wa[r].pc = "snapshot"
    /\ wa' = [wa EXCEPT ![r].pc = "send", ![r].snap = Snapshot(srv.commands)]
    /\ UNCHANGED <<c, proc, rd, closer, ex, wt, ch, srv, hd, cl, rq>>

\* A watcher that goes back to copy and broadcast once more.
WatchSendRepeats(r) ==
    /\ wa[r].pc = "send"
    /\ cl' = SendAll(wa[r].snap)
    /\ wa' = [wa EXCEPT ![r].pc = "snapshot"]
    /\ UNCHANGED <<c, proc, rd, closer, ex, wt, ch, srv, hd, rq>>

\* A completion broadcast with plain sends: it waits, holding commandsSubMu,
\* for room in every subscriber's channel.
WatchSendBlocking(r) ==
    /\ wa[r].pc = "send"
    /\ \A j \in srv.commandsSubscribers : Len(cl[j].buf) < MessageChanCap
    /\ cl' = SendAll(wa[r].snap)
    /\ wa' = [wa EXCEPT ![r].pc = "done"]
    /\ UNCHANGED <<c, proc, rd, closer, ex, wt, ch, srv, hd, rq>>

WatchSend(r) ==
    /\ wa[r].pc = "send"
    /\ cl' = SendAll(wa[r].snap)
    /\ wa' = [wa EXCEPT ![r].pc = "done"]
    /\ UNCHANGED <<c, proc, rd, closer, ex, wt, ch, srv, hd, rq>>

\* A stream handler that goes on to the initial state without registering
\* its channel.
StreamSubscribeNoRegister(j) ==
    /\ cl[j].pc = "idle"
    /\ \A i \in Clients : i < j => cl[i].pc # "idle"
    /\ cl' = [cl EXCEPT ![j].pc = "initial"]
    /\ UNCHANGED <<c, proc, rd, closer, ex, wt, ch, srv, hd, wa, rq>>

\* handleCommandsStream: messageChan is made and registered, under
\* commandsSubMu.
StreamSubscribe(j) ==
    /\ cl[j].pc = "idle"
    /\ \A i \in Clients : i < j => cl[i].pc # "idle"
    /\ srv' = [srv EXCEPT !.commandsSubscribers = @ \cup {j}]
    /\ cl' = [cl EXCEPT ![j].pc = "initial"]
    /\ UNCHANGED <<c, proc, rd, closer, ex, wt, ch, hd, wa, rq>>

\* The initial state is copied under commandsMu and written to the client.
StreamInitial(j) ==
    /\ cl[j].pc = "initial"
    /\ cl' = [cl EXCEPT ![j].pc = "listen", ![j].last = Snapshot(srv.commands),
                        ![j].n = 1]
    /\ UNCHANGED <<c, proc, rd, closer, ex, wt, ch, srv, hd, wa, rq>>

\* case msg := <-messageChan: the message is written to the client.
StreamRecv(j) ==
    /\ cl[j].pc = "listen"
    /\ cl[j].buf # <<>>
    /\ cl' = [cl EXCEPT ![j].buf = Tail(@), ![j].last = Head(cl[j].buf),
                        ![j].n = @ + 1]
    /\ UNCHANGED <<c, proc, rd, closer, ex, wt, ch, srv, hd, wa, rq>>

\* A disconnect that leaves the channel in commandsSubscribers.
StreamDisconnectNoDelete(j) ==
    /\ cl[j].pc = "listen"
    /\ cl' = [cl EXCEPT ![j].pc = "closing"]
    /\ UNCHANGED <<c, proc, rd, closer, ex, wt, ch, srv, hd, wa, rq>>

\* case <-notify: the channel leaves commandsSubscribers ...
StreamDisconnect(j) ==
    /\ cl[j].pc = "listen"
    /\ srv' = [srv EXCEPT !.commandsSubscribers = @ \ {j}]
    /\ cl' = [cl EXCEPT ![j].pc = "closing"]
    /\ UNCHANGED <<c, proc, rd, closer, ex, wt, ch, hd, wa, rq>>

\* ... and is closed.
StreamClose(j) ==
    /\ cl[j].pc = "closing"
    /\ cl' = [cl EXCEPT ![j].pc = "gone", ![j].closed = TRUE]
    /\ UNCHANGED <<c, proc, rd, closer, ex, wt, ch, srv, hd, wa, rq>>

WatcherChans == {wa[r].chan : r \in Runners}

\* handleCommandLogsStream for a command of the registry: the client gets a
\* channel of the command's runner.
handleCommandLogsStream(id) ==
    /\ id \in DOMAIN srv.commands
    /\ Cardinality(DOMAIN ch \ WatcherChans) < SrvStreams
    /\ StdoutChannel(srv.commands[id].cmd)
    /\ UNCHANGED serverVars

\* case line, ok := <-logChan, at the client's pace.
LogStreamRecv(k) ==
    /\ k \notin WatcherChans
    /\ Recv(k)

\* The requests of the server specification, each with its own runner.
Requests == {1}
\* The registry client of the specifications that have one.
OneClient == {1}

\* The server: requests, the goroutines they start, and the runners, whose
\* methods only the handlers and the watchers call.  No Wait precedes the
\* closer here, so no pipe is closed under a reader.
SrvNext ==
    \/ \E q \in Requests :
        \/ handleYtDlp(q)
        \/ handleExtractAudio(q)
        \/ ExecuteStart(q, Scripts(SrvLines))
        \/ ExecuteSpawn(q)
        \/ HandleLaunchError(q)
        \/ nextCommandID(q)
        \/ HandleInsert(q)
        \/ HandleSnapshot(q)
        \/ HandleSend(q)
        \/ ProcExit(q)
        \/ \E s \in Streams : ReadLine(q, s) \/ ReadTooLong(q, s) \/ ReadEOF(q, s)
        \/ Closer(q)
        \/ WatchSubscribe(q)
        \/ WatchRange(q)
        \/ WatchWait(q)
        \/ CmdWait(q)
        \/ WgWait(q)
        \/ WaitRecord(q)
        \/ WatchExitCode(q)
        \/ WatchMark(q)
        \/ WatchSnapshot(q)
        \/ WatchSend(q)
    \/ \E j \in OneClient :
        \/ StreamSubscribe(j)
        \/ StreamInitial(j)
        \/ StreamRecv(j)
        \/ StreamDisconnect(j)
        \/ StreamClose(j)
    \/ \E id \in Runners : handleCommandLogsStream(id)
    \/ \E k \in 1..(MaxRunners + SrvStreams) : LogStreamRecv(k)

SrvSpec == Init /\ [][SrvNext]_vars

\* ------------------------------------------------------------- read requests
\* handleCommands: the copy of every entry made under commandsMu, answered
\* with 200.
handleCommands ==
    /\ rq.n < SrvReads
    /\ rq' = [n |-> rq.n + 1, kind |-> "list", id |-> 0, code |-> 200,
              body |-> Snapshot(srv.commands)]
    /\ UNCHANGED <<c, proc, rd, closer, ex, wt, ch, srv, hd, wa, cl>>

\* The identifiers a client may ask for: issued ones and others.
LookupIds == 1..(MaxRunners + 1)

\* handleCommandLogs answering 200 with no logs for an identifier the map
\* does not have.
handleCommandLogsNoCheck(id) ==
    /\ rq.n < SrvReads
    /\ rq' = [n |-> rq.n + 1, kind |-> "logs", id |-> id, code |-> 200,
              body |-> IF id \in DOMAIN srv.commands
                       THEN Logs(srv.commands[id].cmd) ELSE <<>>]
    /\ UNCHANGED <<c, proc, rd, closer, ex, wt, ch, srv, hd, wa, cl>>

\* handleCommandLogs: 404 when the map has no such identifier, otherwise 200
\* with cmdInfo.Command.Logs().
handleCommandLogs(id) ==
    /\ rq.n < SrvReads
    /\ rq' = IF id \in DOMAIN srv.commands
             THEN [n |-> rq.n + 1, kind |-> "logs", id |-> id, code |-> 200,
                   body |-> Logs(srv.commands[id].cmd)]
             ELSE [n |-> rq.n + 1, kind |-> "logs", id |-> id, code |-> 404,
                   body |-> <<>>]
    /\ UNCHANGED <<c, proc, rd, closer, ex, wt, ch, srv, hd, wa, cl>>

\* handleCommandLogsStream for an identifier the map does not have: 404, and
\* StdoutChannel is not called.
LogStreamNotFound(id) ==
    /\ rq.n < SrvReads
    /\ id \notin DOMAIN srv.commands
    /\ rq' = [n |-> rq.n + 1, kind |-> "stream", id |-> id, code |-> 404,
              body |-> <<>>]
    /\ UNCHANGED <<c, proc, rd, closer, ex, wt, ch, srv, hd, wa, cl>>

\* ------------------------------------------------------------------ RegSpec
\* The registry under concurrent registrations: every request of Runners is
\* made, next to the registry clients and the read requests.  The commands
\* write nothing and are still running: what follows the exit of a process
\* is the matter of SrvSpec.
RegNext ==
    \/ \E q \in Runners :
        \/ handleYtDlp(q)
        \/ handleExtractAudio(q)
        \/ ExecuteStart(q, Scripts(0))
        \/ ExecuteSpawn(q)
        \/ HandleLaunchError(q)
        \/ nextCommandID(q)
        \/ HandleInsert(q)
        \/ HandleSnapshot(q)
        \/ HandleSend(q)
        \/ WatchSubscribe(q)
    \/ \E j \in OneClient :
        \/ StreamSubscribe(j)
        \/ StreamInitial(j)
        \/ StreamRecv(j)
        \/ StreamDisconnect(j)
        \/ StreamClose(j)
    \/ handleCommands
    \/ \E id \in LookupIds : handleCommandLogs(id) \/ LogStreamNotFound(id)

RegSpec == Init /\ [][RegNext]_vars

\* ----------------------------------------------------------------- ListSpec
\* A command from its request to its completion, next to a log client that
\* reads when it likes and to handleCommands.
ListNext ==
    \/ \E q \in Requests :
        \/ handleYtDlp(q)
        \/ handleExtractAudio(q)
        \/ ExecuteStart(q, Scripts(SrvLines))
        \/ ExecuteSpawn(q)
        \/ HandleLaunchError(q)
        \/ nextCommandID(q)
        \/ HandleInsert(q)
        \/ HandleSnapshot(q)
        \/ HandleSend(q)
        \/ ProcExit(q)
        \/ \E s \in Streams : ReadLine(q, s) \/ ReadTooLong(q, s) \/ ReadEOF(q, s)
        \/ Closer(q)
        \/ WatchSubscribe(q)
        \/ WatchRange(q)
        \/ WatchWait(q)
        \/ CmdWait(q)
        \/ WgWait(q)
        \/ WaitRecord(q)
        \/ WatchExitCode(q)
        \/ WatchMark(q)
        \/ WatchSnapshot(q)
        \/ WatchSend(q)
    \/ \E id \in Runners : handleCommandLogsStream(id)
    \/ \E k \in 1..(MaxRunners + SrvStreams) : LogStreamRecv(k)
    \/ handleCommands

\* The Go scheduler runs every goroutine that can run: a handler that has
\* begun, the goroutines of its runner and its watcher go on.  Nothing makes
\* a client send a request or read its stream, or the process exit.
SrvFairness ==
    \A q \in Runners :
        /\ WF_vars(ExecuteStart(q, Scripts(SrvLines)))
        /\ WF_vars(ExecuteSpawn(q))
        /\ WF_vars(HandleLaunchError(q))
        /\ WF_vars(nextCommandID(q))
        /\ WF_vars(HandleInsert(q))
        /\ WF_vars(HandleSnapshot(q))
        /\ WF_vars(HandleSend(q))
        /\ \A s \in Streams :
              WF_vars(ReadLine(q, s) \/ ReadTooLong(q, s) \/ ReadEOF(q, s))
        /\ WF_vars(Closer(q))
        /\ WF_vars(WatchSubscribe(q))
        /\ WF_vars(WatchRange(q))
        /\ WF_vars(WatchWait(q))
        /\ WF_vars(CmdWait(q))
        /\ WF_vars(WgWait(q))
        /\ WF_vars(WaitRecord(q))
        /\ WF_vars(WatchExitCode(q))
        /\ WF_vars(WatchMark(q))
        /\ WF_vars(WatchSnapshot(q))
        /\ WF_vars(WatchSend(q))

ListSpec == Init /\ [][ListNext]_vars /\ SrvFairness

\* ----------------------------------------------------------------- CastSpec
\* The broadcasts of one command, from its registration to its completion,
\* to every registry client; the command writes nothing.
CastNext ==
    \/ \E q \in Requests :
        \/ handleYtDlp(q)
        \/ handleExtractAudio(q)
        \/ ExecuteStart(q, Scripts(0))
        \/ ExecuteSpawn(q)
        \/ HandleLaunchError(q)
        \/ nextCommandID(q)
        \/ HandleInsert(q)
        \/ HandleSnapshot(q)
        \/ HandleSend(q)
        \/ ProcExit(q)
        \/ \E s \in Streams : ReadEOF(q, s)
        \/ Closer(q)
        \/ WatchSubscribe(q)
        \/ WatchWait(q)
        \/ CmdWait(q)
        \/ WgWait(q)
        \/ WaitRecord(q)
        \/ WatchExitCode(q)
        \/ WatchMark(q)
        \/ WatchSnapshot(q)
        \/ WatchSend(q)
    \/ \E j \in Clients :
        \/ StreamSubscribe(j)
        \/ StreamInitial(j)
        \/ StreamRecv(j)
        \/ StreamDisconnect(j)
        \/ StreamClose(j)

CastSpec == Init /\ [][CastNext]_vars /\ SrvFairness

\* ================================================================ claims
History(k) == c[ch[k].r].stdoutLines
\* What was sent on channel k after the replay.
LivePart(k) == SubSeq(ch[k].sent, ch[k].at + 1, Len(ch[k].sent))
\* What the readers appended to the history after channel k was made.
Since(k) == SubSeq(History(k), ch[k].at + 1, Len(History(k)))
StreamOf(l) == l \div 10

BeforeOutput(k) == ch[k].at = 0 /\ ch[k].phase \in {"new", "live"}

Exited(r) == proc[r].st \in {"exited", "reaped"}
WaitReturned(r) == wt[r].pc = "idle" /\ wt[r].n > 0

\* C3: whatever the subscribers do, once the process of a runner whose
\* readers were started has exited, both readers finish; and a Wait call
\* that has begun returns once the process has exited.
C3_NonBlockingProducer ==
    \A r \in Runners :
        /\ (closer[r] # "off" /\ Exited(r)) ~> ReadersDone(r)
        /\ (wt[r].pc # "idle" /\ Exited(r)) ~> (wt[r].pc = "idle")

\* A subscriber that read nothing and lost a line, with both readers done
\* and Wait returned.
C3_Witness ==
    \E k \in DOMAIN ch :
        /\ ch[k].nread = 0
        /\ ch[k].drops > 0
        /\ ReadersDone(ch[k].r)
        /\ WaitReturned(ch[k].r)
        /\ proc[ch[k].r].st = "reaped"

\* C4: on a runner that Execute has started and whose process has exited,
\* every channel StdoutChannel returned is eventually closed.
C4_ClosureLiveness ==
    \A k \in 1..MaxCalls :
        (k \in DOMAIN ch /\ c[ch[k].r].executed /\ Exited(ch[k].r))
            ~> (k \in DOMAIN ch /\ ch[k].closed)

\* Two closed channels of one runner: one made before Execute, the other
\* after both readers had finished.
C4_Witness ==
    \E k \in DOMAIN ch : \E j \in DOMAIN ch :
        /\ ch[k].phase = "new"
        /\ ch[j].phase \in {"drained", "closed"}
        /\ ch[k].closed
        /\ ch[j].closed

\* C5, in every state: a channel made after the closer ran is closed and
\* holds the whole history; a channel made after both readers finished and
\* before the closer ran holds the whole history, and is closed as soon as
\* the closer has run.
C5_Inv ==
    \A k \in DOMAIN ch :
        /\ ch[k].phase = "closed" =>
              ch[k].closed /\ ch[k].sent = History(k)
        /\ ch[k].phase = "drained" =>
              /\ ch[k].sent = History(k)
              /\ closer[ch[k].r] = "done" => ch[k].closed

\* C5: subscribing after completion gives the whole final history on a
\* channel that is closed or will be closed.
C5_SubscribeAfterCompletion ==
    /\ []C5_Inv
    /\ \A k \in 1..MaxCalls :
          (k \in DOMAIN ch /\ ch[k].phase = "drained")
              ~> (k \in DOMAIN ch /\ ch[k].closed)

\* A closed channel made between the readers' end and the closer, and one
\* made after the closer, both holding a history of at least one line.
C5_Witness ==
    \E k \in DOMAIN ch : \E j \in DOMAIN ch :
        /\ ch[k].phase = "drained"
        /\ ch[k].closed
        /\ ch[j].phase = "closed"
        /\ Len(ch[k].sent) > 0
        /\ ch[j].sent = ch[k].sent

\* The lines of stream s that the scanner can hold: those before the first
\* oversized one.
Scannable(r, s) ==
    {i \in 1..proc[r].out[s] : proc[r].bad[s] = 0 \/ i < proc[r].bad[s]}
NoLineLost(r) ==
    \A s \in Streams : \A i \in Scannable(r, s) :
        Line(s, i) \in Range(c[r].stdoutLines)

\* C6 as claimed: when Wait returns on a started runner, the process has
\* exited, both readers have finished and the history holds every line the
\* process wrote.
C6_WaitDrains ==
    [][\A r \in Runners :
          (wt[r].pc = "record" /\ wt'[r].pc = "idle" /\ c[r].executed) =>
              (Exited(r) /\ ReadersDone(r) /\ NoLineLost(r))]_vars

WaitsCompleted(r) == IF wt[r].pc = "idle" THEN wt[r].n ELSE wt[r].n - 1

\* C7: as long as no Wait call on a runner has completed, ExitCode is -1.
C7_SentinelBeforeWait ==
    \A r \in Runners : WaitsCompleted(r) = 0 => ExitCode(r) = -1

\* The process has exited and been reaped, and the first Wait call is about
\* to store the exit code.
C7_Witness ==
    \E r \in Runners :
        /\ proc[r].st = "reaped"
        /\ wt[r].pc = "record"
        /\ WaitsCompleted(r) = 0
        /\ ExitCode(r) = -1

\* The code the runner is to report for a process that ended with w.
ExpectedCode(w) == IF w.exited THEN w.code ELSE 1

\* C8 as claimed: after Wait has completed on a runner that Execute has
\* started, ExitCode is never -1: it is 0 or the code the process reported,
\* and 1 when the process was killed by a signal or Wait failed otherwise.
C8_FinalExitCode ==
    \A r \in Runners :
        (WaitReturned(r) /\ c[r].executed /\ ex[r].pc = "idle"
            /\ wt[r].err # "none") =>
            /\ ExitCode(r) # -1
            /\ wt[r].err \in {"nil", "ExitError"} =>
                  ExitCode(r) = ExpectedCode(proc[r].status)
            /\ wt[r].err = "other" => ExitCode(r) = 1

\* C9: an Execute call on a started runner returns nil and changes nothing
\* but the caller's own return.
C9_ExecuteIdempotent ==
    [][\A r \in Runners :
          (ex'[r].n = ex[r].n + 1 /\ c[r].executed) =>
              /\ ex'[r].ret = "nil"
              /\ ex'[r].pc = ex[r].pc
              /\ UNCHANGED <<c, proc, rd, closer, wt, ch>>]_vars

\* A second Execute call has returned nil while the first, which started
\* the process, has not yet started the readers.
C9_Witness ==
    \E r \in Runners :
        /\ ex[r].n = 2
        /\ ex[r].pc = "spawned"
        /\ ex[r].ret = "nil"
        /\ c[r].executed

\* The process of runner r exited by itself with code k.
ExitedWith(r, k) == proc[r].st = "reaped" /\ proc[r].status = [exited |-> TRUE, code |-> k]

\* The process of runner r wrote nothing on either stream.
NoOutput(r) == \A s \in Streams : proc[r].out[s] = 0

\* C10: an entry the watcher has marked is "completed" exactly when the
\* resolved exit code of its runner is 0, which is exactly when the process
\* exited with code 0; it is "failed" for every other exit and for a process
\* killed by a signal.  A process that exits with code 1 and no output ends
\* as "failed" with ExitCode() = 1 and Logs() empty.
C10_ExitCodeMapping ==
    \A id \in DOMAIN srv.commands :
        LET e == srv.commands[id]
            r == e.cmd
        IN  e.status # "running" =>
                /\ e.status \in {"completed", "failed"}
                /\ proc[r].st = "reaped"
                /\ e.status = "completed" <=> ExitCode(r) = 0
                /\ e.status = "completed" <=> Success(proc[r].status)
                /\ ~Success(proc[r].status) => e.status = "failed"
                /\ e.exitCode = ExitCode(r)
                /\ (ExitedWith(r, 1) /\ NoOutput(r)) =>
                      /\ e.status = "failed"
                      /\ ExitCode(r) = 1
                      /\ Logs(r) = <<>>

\* The watcher has marked the entry of a process that exited with code 1
\* and wrote nothing, and has broadcast the change.
C10_Witness ==
    \E id \in DOMAIN srv.commands :
        /\ ExitedWith(srv.commands[id].cmd, 1)
        /\ NoOutput(srv.commands[id].cmd)
        /\ wa[srv.commands[id].cmd].pc = "done"
        /\ srv.commands[id].status = "failed"

\* The requests that nextCommandID has answered.
Issued == {q \in Runners : hd[q].id # 0}

\* C11: the identifiers nextCommandID has returned are pairwise distinct,
\* and a call returns a larger counter value than every call that returned
\* before it.
C11_UniqueIncreasing ==
    /\ [](\A p, q \in Issued : p # q => hd[p].id # hd[q].id)
    /\ [][\A q \in Runners :
             (hd[q].id = 0 /\ hd'[q].id # 0) =>
                 \A p \in Issued : hd'[q].id > hd[p].id]_vars

\* Both requests have their identifiers, and the request that arrived second
\* got the smaller one.
C11_Witness ==
    /\ Issued = Runners
    /\ hd[2].id < hd[1].id

\* C12: an identifier of the commands map stays in the map, bound to the
\* entry of the same runner under the same label.
C12_EntriesPermanent ==
    [][\A id \in DOMAIN srv.commands :
          /\ id \in DOMAIN srv'.commands
          /\ srv'.commands[id].id = srv.commands[id].id
          /\ srv'.commands[id].cmd = srv.commands[id].cmd
          /\ srv'.commands[id].url = srv.commands[id].url]_vars

\* The map holds the entries of two requests, the second request's entry
\* under the first identifier.
C12_Witness ==
    /\ DOMAIN srv.commands = {1, 2}
    /\ srv.commands[1].cmd = 2
    /\ srv.commands[2].cmd = 1

Terminal(status) == status \in {"completed", "failed"}

\* C13: an entry enters the map as "running"; a step changes its status only
\* from "running" to "completed" or "failed", and changes neither the status
\* nor the exit code of an entry that is "completed" or "failed".
C13_StatusMachine ==
    [][\A id \in DOMAIN srv'.commands :
          IF id \notin DOMAIN srv.commands
          THEN srv'.commands[id].status = "running"
          ELSE LET a == srv.commands[id]
                   b == srv'.commands[id]
               IN  /\ a.status = "running" =>
                          b.status = "running" \/ Terminal(b.status)
                   /\ Terminal(a.status) =>
                          b.status = a.status /\ b.exitCode = a.exitCode
                   /\ a.status = "running" \/ Terminal(a.status)]_vars

\* The watcher has marked its entry and finished, and the registry client
\* has since left.
C13_Witness ==
    \E id \in DOMAIN srv.commands :
        /\ Terminal(srv.commands[id].status)
        /\ wa[srv.commands[id].cmd].pc = "done"
        /\ \E j \in Clients : cl[j].pc = "gone"

\* Every copy of the entries that exists: the one a list would make now, the
\* last list answered, the copies the broadcasts hold, and the messages in
\* the registry clients' channels and last written to them.
SnapshotsHeld ==
    {Snapshot(srv.commands)}
        \cup (IF rq.kind = "list" THEN {rq.body} ELSE {})
        \cup {hd[q].snap : q \in Runners} \cup {wa[r].snap : r \in Runners}
        \cup {cl[j].last : j \in Clients}
        \cup UNION {Range(cl[j].buf) : j \in Clients}

\* C14: whenever an entry, or any copy of it in a list or a broadcast, shows
\* "completed" or "failed", the Wait call of its runner has returned: the
\* process was reaped, both readers are done and the history holds every
\* line they could scan.
C14_StatusFollowsWait ==
    \A m \in SnapshotsHeld : \A id \in DOMAIN m :
        Terminal(m[id].status) =>
            LET r == srv.commands[id].cmd
            IN  /\ WaitReturned(r)
                /\ proc[r].st = "reaped"
                /\ ReadersDone(r)
                /\ NoLineLost(r)

\* A registry client was written a broadcast that shows "completed" or
\* "failed" for a command that wrote output.
C14_Witness ==
    \E j \in Clients : \E id \in DOMAIN cl[j].last :
        /\ Terminal(cl[j].last[id].status)
        /\ ~NoOutput(srv.commands[id].cmd)
        /\ cl[j].n > 1

\* Request q has its entry in the map.
Registered(q) ==
    /\ hd[q].id \in DOMAIN srv.commands
    /\ srv.commands[hd[q].id].cmd = q

\* C15: once the process of a registered command has exited, its entry
\* becomes "completed" or "failed", whether or not the other subscribers of
\* its output read; and a list answered when an entry is "completed" or
\* "failed" shows that status.
C15_EventualStatus ==
    /\ \A q \in Runners :
          (Registered(q) /\ Exited(q)) ~>
              (Registered(q) /\ Terminal(srv.commands[hd[q].id].status))
    /\ [][(rq'.n = rq.n + 1 /\ rq'.kind = "list") =>
             \A id \in DOMAIN srv.commands :
                 Terminal(srv.commands[id].status) =>
                     /\ id \in DOMAIN rq'.body
                     /\ rq'.body[id].status = srv.commands[id].status]_vars

\* A list shows "completed" or "failed" for a command while a log client
\* has not read all the lines in its channel.
C15_Witness ==
    /\ rq.kind = "list"
    /\ \E id \in DOMAIN rq.body : Terminal(rq.body[id].status)
    /\ \E k \in DOMAIN ch :
          k \notin WatcherChans /\ ch[k].nread < Len(ch[k].sent)

\* The step offers msg to the registry subscribers: each one with room in
\* its channel gets it, and nothing else changes in any client's channel.
OfferedToAll(msg) ==
    \A j \in Clients :
        cl'[j].buf =
            IF j \in srv.commandsSubscribers /\ Len(cl[j].buf) < MessageChanCap
            THEN Append(cl[j].buf, msg)
            ELSE cl[j].buf

\* C16: the sends of a broadcast put the snapshot in the channel of every
\* subscriber that has room and skip the others; and whatever the clients
\* do, a registration and a status change go on to the end of their
\* broadcast.
C16_BroadcastNonBlocking ==
    /\ [][\A q \in Runners :
             /\ (hd[q].pc = "send" /\ hd'[q].pc = "done") => OfferedToAll(hd[q].snap)
             /\ (wa[q].pc = "send" /\ wa'[q].pc = "done") => OfferedToAll(wa[q].snap)]_vars
    /\ \A q \in Runners :
          /\ (hd[q].pc \in {"insert", "snapshot", "send"}) ~> (hd[q].pc = "done")
          /\ (wa[q].pc \in {"mark", "snapshot", "send"}) ~> (wa[q].pc = "done")

\* Both clients were subscribed when the command completed; the first, whose
\* channel still holds the snapshot of the registration, missed the one of
\* the completion, which the second was written.
C16_Witness ==
    /\ srv.commandsSubscribers = {1, 2}
    /\ \E q \in Runners :
          /\ wa[q].pc = "done"
          /\ Len(cl[1].buf) = MessageChanCap
          /\ hd[q].id \in DOMAIN cl[1].buf[1]
          /\ cl[1].buf[1][hd[q].id].status = "running"
          /\ hd[q].id \in DOMAIN cl[2].last
          /\ Terminal(cl[2].last[hd[q].id].status)
          /\ cl[2].n > 1

\* C17: the broadcast of a registration copies the map after the insertion,
\* so its snapshot has the new entry and every entry inserted before it;
\* its sends put that snapshot in the channel of every client that is a
\* subscriber then and has room.
C17_RegistrationBroadcast ==
    [][\A q \in Runners :
          /\ (hd[q].pc = "insert" /\ hd'[q].pc = "snapshot") =>
                DOMAIN srv'.commands = DOMAIN srv.commands \cup {hd[q].id}
          /\ (hd[q].pc = "snapshot" /\ hd'[q].pc = "send") =>
                /\ hd[q].id \in DOMAIN srv.commands
                /\ DOMAIN hd'[q].snap = DOMAIN srv.commands
                /\ \A id \in DOMAIN srv.commands :
                      /\ hd'[q].snap[id].url = srv.commands[id].url
                      /\ hd'[q].snap[id].status = srv.commands[id].status
          /\ (hd[q].pc = "send" /\ hd'[q].pc = "done") =>
                /\ hd[q].id \in DOMAIN hd[q].snap
                /\ \A j \in srv.commandsSubscribers :
                      Len(cl[j].buf) < MessageChanCap =>
                          cl'[j].buf = Append(cl[j].buf, hd[q].snap)]_vars

\* A registry client was written the broadcast of the second registration,
\* which shows both entries.
C17_Witness ==
    \E j \in Clients :
        /\ cl[j].n > 1
        /\ DOMAIN cl[j].last = {1, 2}
        /\ \A q \in Runners : hd[q].pc = "done"

\* C18: a lookup, by handleCommandLogs or handleCommandLogsStream, of an
\* identifier that nextCommandID never returned is answered 404 and changes
\* nothing: no entry, no runner, no channel, no subscriber.
C18_UnknownLookup ==
    [][(rq'.n = rq.n + 1 /\ rq'.kind \in {"logs", "stream"}
            /\ rq'.id > srv.commandCounter) =>
          /\ rq'.code = 404
          /\ rq'.body = <<>>
          /\ UNCHANGED <<c, proc, rd, closer, ex, wt, ch, srv, hd, wa, cl>>]_vars

\* With two commands registered, the logs of an identifier that was never
\* issued were asked for.
C18_Witness ==
    /\ DOMAIN srv.commands = {1, 2}
    /\ rq.kind = "logs"
    /\ rq.id > srv.commandCounter
    /\ rq.code = 404

\* Both readers of r have returned, by the end of their stream or by a line
\* that is too long, and the closer has run.
CaptureOver(r) ==
    /\ closer[r] = "done"
    /\ \A s \in Streams : rd[r][s].pc \in {"eof", "long"}

\* C19 as claimed: once capture is over, the history of a runner of which a
\* stream had a line too long to read holds the error line of that stream
\* and every other line the process wrote, on that stream and on the other.
C19_CaptureContinues ==
    \A r \in Runners :
        CaptureOver(r) =>
            \A s \in Streams :
                /\ proc[r].bad[s] # 0 => ErrMsg(s) \in Range(Logs(r))
                /\ \A i \in 1..proc[r].out[s] :
                      i # proc[r].bad[s] => Line(s, i) \in Range(Logs(r))

\* The Execute call of request q has returned an error.
LaunchFailed(q) == ex[q].pc = "idle" /\ ex[q].ret = "err"

\* C20: when the launch fails, Execute returns the error in the step that
\* meets it, and from then on the runner is not started: it has no process,
\* no reader, no closer and no watcher, its history is empty and its
\* ExitCode is -1; the request gets no identifier and no entry, and the
\* counter counts the other requests only.
C20_LaunchFailure ==
    /\ [](\A q \in Runners :
            LaunchFailed(q) =>
                /\ ~c[q].executed
                /\ proc[q].st = "none"
                /\ \A s \in Streams : rd[q][s].pc = "off"
                /\ closer[q] = "off"
                /\ c[q].waitGroup = 0
                /\ wa[q].pc = "off"
                /\ Logs(q) = <<>>
                /\ ExitCode(q) = -1
                /\ hd[q].id = 0
                /\ \A id \in DOMAIN srv.commands : srv.commands[id].cmd # q)
    /\ [](srv.commandCounter = Cardinality(Issued))
    /\ [][\A q \in Runners :
             (ex[q].pc = "locked" /\ LaunchFailed(q)') =>
                 UNCHANGED <<c, proc, rd, closer, wt, ch, srv, hd, wa, cl, rq>>]_vars

\* One request failed to launch its command; the other registered its own
\* and got the first identifier.
C20_Witness ==
    \E q, p \in Runners :
        /\ hd[q].pc = "failed"
        /\ hd[p].pc = "done"
        /\ hd[p].id = 1
        /\ srv.commandCounter = 1

\* C21: every step leaves the history of every runner as it is or appends
\* to it, so the history at an earlier state is a prefix of the history at
\* any later state, whatever the step is: a read with its fan-out and its
\* drops, a subscription, a call of Execute or Wait, the closer.
C21_AppendOnly ==
    [][\A r \in Runners : IsPrefix(Logs(r), Logs(r)')]_vars

\* The history holds two lines, one channel was subscribed and has dropped
\* a line, and Wait has returned.
C21_Witness ==
    \E r \in Runners :
        /\ Len(Logs(r)) = 2
        /\ WaitReturned(r)
        /\ \E k \in ChansOf(r) : ch[k].drops > 0

\* A Wait call has returned on runner r after Execute had started it: the
\* call reaped the process, or it is the call that went through cmd.Wait
\* when the one Execute call made on r, which succeeded, had made c.cmd.
ReturnedOnStarted(r) ==
    /\ WaitReturned(r)
    /\ c[r].executed
    /\ \/ wt[r].err \in {"nil", "ExitError"}
       \/ wt[r].err = "other" /\ ex[r].n = 1

\* C22 as claimed: once a Wait call has returned on a started runner, no
\* step changes the history of that runner.
C22_FrozenAfterWait ==
    [][\A r \in Runners : ReturnedOnStarted(r) => Logs(r)' = Logs(r)]_vars

\* The replayed part of every subscription is the history it was taken from.
ReplayIsHistory ==
    \A k \in DOMAIN ch :
        SubSeq(ch[k].sent, 1, ch[k].at) = SubSeq(History(k), 1, ch[k].at)

RECURSIVE IsSubsequence(_, _)
IsSubsequence(a, b) ==
    IF a = <<>> THEN TRUE
    ELSE IF b = <<>> THEN FALSE
    ELSE IF Head(a) = Head(b) THEN IsSubsequence(Tail(a), Tail(b))
    ELSE IsSubsequence(a, Tail(b))

\* Two lines that both sequences hold come in the same order in both.
SameOrder(a, b) ==
    \A i, j \in DOMAIN a : \A p, q \in DOMAIN b :
        (i < j /\ a[i] = b[p] /\ a[j] = b[q]) => p < q

\* C24: what a subscription has been sent is a subsequence of its runner's
\* history, in the order of the history, whatever the interleaving of the
\* two readers; so two subscriptions of one runner never hold two lines in
\* opposite orders.
C24_ConsistentOrder ==
    /\ \A k \in DOMAIN ch : IsSubsequence(ch[k].sent, History(k))
    /\ \A k1, k2 \in DOMAIN ch :
        ch[k1].r = ch[k2].r => SameOrder(ch[k1].sent, ch[k2].sent)

\* Two subscriptions of one runner that were sent different sequences with
\* a line in common; one of them was sent live a line of the second stream
\* and then a line of the first, the other missed a line.
C24_Witness ==
    \E k1, k2 \in DOMAIN ch :
        /\ ch[k1].r = ch[k2].r
        /\ ch[k1].sent # ch[k2].sent
        /\ ch[k1].at = 0
        /\ ch[k2].drops > 0
        /\ \E i \in DOMAIN ch[k1].sent : \E p \in DOMAIN ch[k2].sent :
            ch[k1].sent[i] = ch[k2].sent[p]
        /\ \E i, j \in DOMAIN ch[k1].sent :
            /\ i < j
            /\ StreamOf(ch[k1].sent[i]) = 2
            /\ StreamOf(ch[k1].sent[j]) = 1

\* C25: a line a reader scans is appended to the history and sent to every
\* registered subscriber whose buffer has room; a subscriber whose buffer is
\* full misses it and nobody else does.  The replay of StdoutChannel() is
\* the whole history: a new channel starts with every line and no drop.
C25_DropPerSubscriber ==
    /\ [][\A r \in Runners : \A s \in Streams :
            rd'[r][s].n = rd[r][s].n + 1 =>
                LET line == Line(s, rd'[r][s].n) IN
                /\ c'[r].stdoutLines = Append(c[r].stdoutLines, line)
                /\ \A k \in Range(c[r].stdoutSubscribers) :
                    ch'[k].sent = IF HasRoom(k) THEN Append(ch[k].sent, line)
                                  ELSE ch[k].sent]_vars
    /\ [][\A k \in DOMAIN ch' \ DOMAIN ch :
            /\ ch'[k].sent = c[ch'[k].r].stdoutLines
            /\ ch'[k].drops = 0]_vars

\* Two registered subscribers of one runner: the last line of the history
\* was dropped for the one whose buffer was full and sent to the other, and
\* the second one replayed a history that was not empty.
C25_Witness ==
    \E k1, k2 \in DOMAIN ch :
        /\ ch[k1].r = ch[k2].r
        /\ Len(History(k1)) > 0
        /\ LET last == History(k1)[Len(History(k1))] IN
            /\ ~IsErrMsg(last)
            /\ ch[k1].drops > 0
            /\ \A i \in DOMAIN ch[k1].sent : ch[k1].sent[i] # last
            /\ ch[k2].at > 0
            /\ Len(ch[k2].sent) > ch[k2].at
            /\ ch[k2].sent[Len(ch[k2].sent)] = last

\* A step of a subscriber: a subscription is made, or a line is received.
SubscriberStep ==
    \/ DOMAIN ch' # DOMAIN ch
    \/ \E k \in DOMAIN ch : ch'[k].nread # ch[k].nread

Unsubscribed(j) == cl[j].pc \in {"closing", "gone"}

\* The other clients that are subscribed and have room are written msg.
OthersWritten(msg) ==
    \A j \in Clients :
        (/\ j \in srv.commandsSubscribers
         /\ Len(cl[j].buf) < MessageChanCap
         /\ \E i \in Clients : Unsubscribed(i))
        => cl'[j].buf = Append(cl[j].buf, msg)

\* C27: once a client's channel has been deleted from commandsSubscribers,
\* it is in the set no more and no step puts a message in it; the sends of a
\* broadcast, of a registration or of a completion, still put the snapshot
\* in the channel of every other client that is subscribed and has room.
C27_UnsubscribeStopsDelivery ==
    /\ [](\A j \in Clients : Unsubscribed(j) => j \notin srv.commandsSubscribers)
    /\ [][\A j \in Clients : Unsubscribed(j) => cl'[j].buf = cl[j].buf]_vars
    /\ [][\A q \in Runners :
            /\ (hd[q].pc = "send" /\ hd'[q].pc = "done") => OthersWritten(hd[q].snap)
            /\ (wa[q].pc = "send" /\ wa'[q].pc = "done") => OthersWritten(wa[q].snap)]_vars

\* The first client saw the command running in its initial state, left, and
\* was never sent anything; the completion was broadcast afterwards and the
\* second client was written it.
C27_Witness ==
    /\ Unsubscribed(1)
    /\ cl[1].n = 1
    /\ cl[1].buf = <<>>
    /\ \E q \in Runners :
          /\ wa[q].pc = "done"
          /\ hd[q].id \in DOMAIN cl[1].last
          /\ cl[1].last[hd[q].id].status = "running"
          /\ hd[q].id \in DOMAIN cl[2].last
          /\ Terminal(cl[2].last[hd[q].id].status)
          /\ cl[2].n > 1

\* C28: in the copy of the runner at src/server/internal/command, the
\* delivery of a line never blocks the reader: once the process of a started
\* runner has exited both readers finish, a Wait call in progress returns,
\* and no reader stays for ever inside its fan-out, where it holds the mutex
\* StdoutChannel needs.
C28_OldReaderNeverBlocks ==
    \A r \in Runners :
        /\ (closer[r] # "off" /\ Exited(r)) ~> ReadersDone(r)
        /\ (wt[r].pc # "idle" /\ Exited(r)) ~> (wt[r].pc = "idle")
        /\ \A s \in Streams : (rd[r][s].pc = "send") ~> (rd[r][s].pc # "send")

\* The buffer of the channel never was full: even with nothing read, what it
\* was sent leaves room.
NeverFull(k) == Len(ch[k].sent) < ch[k].cap

\* C29: the line appended to the history on a read error is sent to the
\* subscribers like any other line, so a closed channel whose buffer never
\* was full has been sent exactly what Logs() returns.
C29_ErrorLineDelivered ==
    \A k \in DOMAIN ch :
        (ch[k].closed /\ NeverFull(k)) => ch[k].sent = Logs(ch[k].r)

\* How far a watcher has come.
WatchRank(pc) ==
    CASE pc = "off" -> 0
      [] pc = "subscribe" -> 1
      [] pc = "range" -> 2
      [] pc = "wait" -> 3
      [] pc = "mark" -> 4
      [] pc = "snapshot" -> 5
      [] pc = "send" -> 6
      [] pc = "done" -> 7

\* C30: one finish per command.  The status of an entry changes only in the
\* marking step of the watcher of its own runner, from "running" to
\* "completed" or "failed"; a watcher only moves forward, so it marks once
\* and broadcasts the completion once; and once the process of a registered
\* command has exited, its watcher comes to the end of that broadcast.
C30_OneFinish ==
    /\ [][\A id \in DOMAIN srv.commands :
            srv'.commands[id].status # srv.commands[id].status =>
                LET r == srv.commands[id].cmd IN
                /\ hd[r].id = id
                /\ wa[r].pc = "mark" /\ wa'[r].pc = "snapshot"
                /\ \A p \in Runners \ {r} : wa'[p] = wa[p]
                /\ srv.commands[id].status = "running"
                /\ Terminal(srv'.commands[id].status)]_vars
    /\ [][\A r \in Runners :
            /\ WatchRank(wa'[r].pc) >= WatchRank(wa[r].pc)
            /\ WatchRank(wa'[r].pc) <= WatchRank(wa[r].pc) + 1]_vars
    /\ \A q \in Runners :
          (Registered(q) /\ Exited(q)) ~> (wa[q].pc = "done")

\* The watcher of a command that wrote output and failed is through: the
\* entry is marked and the completion is broadcast.
C30_Witness ==
    \E q \in Runners :
        /\ Registered(q)
        /\ wa[q].pc = "done"
        /\ ~NoOutput(q)
        /\ srv.commands[hd[q].id].status = "failed"
        /\ wa[q].snap[hd[q].id].status = "failed"

\* C31: a command whose launch failed ends as an entry of the registry with
\* status "failed": once the handler has answered the failed launch, the
\* map has an entry of that runner and it shows "failed".
C31_LaunchFailureEntry ==
    \A q \in Runners :
        hd[q].pc = "failed" =>
            \E id \in DOMAIN srv.commands :
                /\ srv.commands[id].cmd = q
                /\ srv.commands[id].status = "failed"

\* C32: a channel obtained from StdoutChannel() before Execute() is closed
\* in the end also when Execute() fails to launch the process.
C32_PreStartSubscriberReleased ==
    \A k \in 1..MaxCalls :
        (k \in DOMAIN ch /\ LaunchFailed(ch[k].r)) ~> (k \in DOMAIN ch /\ ch[k].closed)

\* C33: once Wait() has recorded an exit code other than -1, ExitCode()
\* returns that value for ever, whatever is called on the runner.
C33_ExitCodeStable ==
    [][\A r \in Runners :
          ExitCode(r) # -1 => ExitCode(r)' = ExitCode(r)]_vars

\* C34: channel safety in the runner.  A registered channel is open and is
\* registered once, so the closer closes no channel twice; a closed channel
\* is sent nothing more and stays closed; and once stdoutClosed is set it
\* stays set and the subscriber list is empty.
C34_RunnerChannelSafety ==
    /\ [](\A r \in Runners :
            LET subs == c[r].stdoutSubscribers IN
            /\ \A i \in DOMAIN subs :
                /\ subs[i] \in DOMAIN ch
                /\ ch[subs[i]].r = r
                /\ ~ch[subs[i]].closed
            /\ \A i, j \in DOMAIN subs : subs[i] = subs[j] => i = j
            /\ c[r].stdoutClosed => subs = <<>>)
    /\ [][\A k \in DOMAIN ch :
            ch[k].closed => (ch'[k].closed /\ ch'[k].sent = ch[k].sent)]_vars
    /\ [][\A r \in Runners : c[r].stdoutClosed => c'[r].stdoutClosed]_vars

\* After the closer: a channel that was registered and sent a line live is
\* closed, a channel made afterwards was born closed, nobody is registered.
C34_Witness ==
    \E k1, k2 \in DOMAIN ch :
        /\ ch[k1].r = ch[k2].r
        /\ closer[ch[k1].r] = "done"
        /\ c[ch[k1].r].stdoutSubscribers = <<>>
        /\ ch[k1].closed /\ ch[k1].at = 0 /\ Len(ch[k1].sent) > 0
        /\ ch[k2].closed /\ ch[k2].phase = "closed"

\* C35: channel safety in the registry.  A closed channel of a registry
\* client is not in commandsSubscribers, is sent nothing and stays closed;
\* a channel is closed only by its own handler, in the step after the one
\* that deleted it, and that handler is then gone for good.
C35_RegistryChannelSafety ==
    /\ [](\A j \in Clients :
            (cl[j].closed \/ cl[j].pc = "closing") => j \notin srv.commandsSubscribers)
    /\ [][\A j \in Clients :
            /\ cl[j].closed => (cl'[j].closed /\ cl'[j].buf = cl[j].buf)
            /\ (~cl[j].closed /\ cl'[j].closed) =>
                   (cl[j].pc = "closing" /\ cl'[j].pc = "gone")
            /\ cl[j].pc = "gone" => cl'[j].pc = "gone"]_vars

\* Both clients have left and their channels are closed; the first saw the
\* command running, left, and the completion broadcast that came later put
\* nothing in its channel.
C35_Witness ==
    /\ \A j \in Clients : cl[j].closed /\ cl[j].pc = "gone"
    /\ cl[1].n = 1 /\ cl[1].buf = <<>>
    /\ \E q \in Runners :
          /\ wa[q].pc = "done"
          /\ hd[q].id \in DOMAIN cl[1].last
          /\ cl[1].last[hd[q].id].status = "running"

\* C36: the snapshots written to one registry client, the initial one and
\* then the broadcasts, come in the order of the states: a snapshot written
\* later has every entry a snapshot written before had, and shows none of
\* them "running" that was shown "completed" or "failed" before.
C36_SnapshotsInStateOrder ==
    [][\A j \in Clients : \A id \in DOMAIN cl[j].last :
          /\ id \in DOMAIN cl'[j].last
          /\ Terminal(cl[j].last[id].status) =>
                 cl'[j].last[id].status # "running"]_vars

\* The client's handler is between the registration of its channel and the
\* client's disconnect.
Attached(j) == cl[j].pc \in {"initial", "listen"}

\* The step offers msg to every attached client: one with room is written it.
OfferedToAttached(msg) ==
    \A j \in Clients :
        (Attached(j) /\ Len(cl[j].buf) < MessageChanCap) =>
            cl'[j].buf = Append(cl[j].buf, msg)

\* C37: no change of the registry is missed at subscription.  A client's
\* channel is in commandsSubscribers from before its initial state is read
\* until it leaves; the initial state is the registry of the moment it is
\* read; and the sends of the broadcast of a registration or of a status
\* change come after the change is in the registry, carry it, and offer it
\* to every attached client.  So a change is in the initial state of a
\* client, or its broadcast is offered to that client.
C37_NoMissedChange ==
    /\ [](\A j \in Clients : Attached(j) => j \in srv.commandsSubscribers)
    /\ [][\A j \in Clients :
            (cl[j].pc = "initial" /\ cl'[j].pc = "listen") =>
                cl'[j].last = Snapshot(srv.commands)]_vars
    /\ [][\A q \in Runners :
            /\ (hd[q].pc = "send" /\ hd'[q].pc = "done") =>
                  /\ hd[q].id \in DOMAIN srv.commands
                  /\ hd[q].id \in DOMAIN hd[q].snap
                  /\ OfferedToAttached(hd[q].snap)
            /\ (wa[q].pc = "send" /\ wa'[q].pc = "done") =>
                  /\ Terminal(srv.commands[hd[q].id].status)
                  /\ wa[q].snap[hd[q].id] = Snapshot(srv.commands)[hd[q].id]
                  /\ OfferedToAttached(wa[q].snap)]_vars

\* The first client read an empty initial state and then was offered the
\* registration; the second read the entry running in its initial state and
\* then was offered the completion.
C37_Witness ==
    \E q \in Runners :
        /\ wa[q].pc = "done"
        /\ cl[1].pc = "listen" /\ cl[1].n = 1 /\ DOMAIN cl[1].last = {}
        /\ cl[1].buf # <<>>
        /\ hd[q].id \in DOMAIN cl[1].buf[1]
        /\ cl[2].pc = "listen" /\ cl[2].n = 1
        /\ hd[q].id \in DOMAIN cl[2].last
        /\ cl[2].last[hd[q].id].status = "running"
        /\ cl[2].buf # <<>>
        /\ Terminal(cl[2].buf[1][hd[q].id].status)

\* C38: in the registry and in every copy of it, a list or a broadcast, an
\* entry shown "completed" has exit code 0, an entry shown "failed" has an
\* exit code other than 0, and an entry shown "running" has the zero value.
C38_StatusExitCodeCoherent ==
    \A m \in SnapshotsHeld : \A id \in DOMAIN m :
        /\ m[id].status = "completed" => m[id].exitCode = 0
        /\ m[id].status = "failed" => m[id].exitCode # 0
        /\ m[id].status = "running" => m[id].exitCode = 0

\* A list shows an entry "failed" with the exit code of its process, and so
\* does the copy the completion broadcast sent; the copy the registration
\* broadcast sent shows it "running".
C38_Witness ==
    /\ rq.kind = "list"
    /\ \E q \in Runners :
          /\ wa[q].pc = "done"
          /\ hd[q].id \in DOMAIN rq.body
          /\ rq.body[hd[q].id].status = "failed"
          /\ rq.body[hd[q].id].exitCode = MaxExit
          /\ wa[q].snap[hd[q].id] = rq.body[hd[q].id]
          /\ hd[q].snap[hd[q].id].status = "running"

C40_WaitBeforeExecute ==
    [][\A r \in Runners :
          (wt'[r].n = wt[r].n + 1 /\ ex[r].n = 0) =>
              /\ wt'[r].pc = "idle"
              /\ wt'[r].ret = "nil"
              /\ c' = c
              /\ ch' = ch
              /\ proc' = proc
              /\ ExitCode(r)' = -1
              /\ Logs(r)' = <<>>]_vars

\* Wait has returned nil on a runner that was never executed and has a
\* subscriber, whose channel is open.
C40_Witness ==
    \E r \in Runners :
        /\ ex[r].n = 0
        /\ wt[r].n > 0 /\ wt[r].pc = "idle" /\ wt[r].ret = "nil"
        /\ Len(c[r].stdoutSubscribers) > 0
        /\ \A k \in ChansOf(r) : ~ch[k].closed
        /\ ExitCode(r) = -1
====
